---------------------------- MODULE Spec2Model ----------------------------
(***************************************************************************)
(* The swap store of frontend/src/stores/swapStore.ts together with the    *)
(* handleSwap handler of the store-backed SwapWidget.                      *)
(*                                                                         *)
(* Texts (inputAmount, outputAmount) are sequences of one-character        *)
(* strings.  Numbers are exact decimals: a sequence of decimal digits      *)
(* (most significant first, no leading zero) and the count e of digits     *)
(* that follow the decimal point, so that products and the 6-decimal       *)
(* rendering are computed digit by digit.  Binary floating point rounding  *)
(* is not modelled.                                                        *)
(*                                                                         *)
(* A value that is string | null or Quote | null in the source is a        *)
(* sequence of length at most one: <<>> is null, <<v>> is the value v.     *)
(*                                                                         *)
(* The fields showQuoteDetails, currentPrice and priceChange24h, which no   *)
(* action reads, are left out, and so are the bare setters that nothing     *)
(* calls (setQuote, setIsQuoteLoading, setIsExchanging,                     *)
(* setExchangeDirection, setShowQuoteDetails, setCurrentPrice,              *)
(* setPriceChange24h); setError and setIsSwapPending are modelled where     *)
(* handleSwap calls them.                                                   *)
(*                                                                         *)
(* previous is a history variable: it records whether the last step was a  *)
(* call of swapAssets or of resetForm, for the properties that speak of    *)
(* two such calls in a row.  afterReset is a history variable too: it is   *)
(* true from a reset (resetForm, also the one of a successful swap, or     *)
(* resetSwap) until the next edit of the form (setInputAmount,             *)
(* setOutputAmount, setFromAsset, setToAsset, swapAssets).  No action      *)
(* reads them.                                                             *)
(***************************************************************************)
EXTENDS Integers, Sequences, FiniteSets, TLC

\* ------------------------------------------------------------------------
\* Bounds of the model
\* ------------------------------------------------------------------------

\* calls of the store's actions and of handleSwap, per behaviour
MaxActions == 4

\* ------------------------------------------------------------------------
\* Decimal digits and exact decimal numbers
\* ------------------------------------------------------------------------

DigitChars == <<"0", "1", "2", "3", "4", "5", "6", "7", "8", "9">>

DigitOf(c) == CHOOSE d \in 0..9 : DigitChars[d + 1] = c

Front(s) == SubSeq(s, 1, Len(s) - 1)

Last(s) == s[Len(s)]

Zeros(n) == [i \in 1..n |-> 0]

RECURSIVE StripLeading(_)
StripLeading(dig) ==
    IF dig # <<>> /\ Head(dig) = 0 THEN StripLeading(Tail(dig)) ELSE dig

\* the digits of a natural number
RECURSIVE NatDigits(_)
NatDigits(n) == IF n = 0 THEN <<>> ELSE Append(NatDigits(n \div 10), n % 10)

\* a + b + carry on digit sequences
RECURSIVE AddDigits(_, _, _)
AddDigits(a, b, carry) ==
    IF a = <<>> /\ b = <<>> THEN NatDigits(carry)
    ELSE LET x == IF a = <<>> THEN 0 ELSE Last(a)
             y == IF b = <<>> THEN 0 ELSE Last(b)
             s == x + y + carry
         IN  Append(AddDigits(IF a = <<>> THEN a ELSE Front(a),
                              IF b = <<>> THEN b ELSE Front(b),
                              s \div 10),
                    s % 10)

\* a - b - borrow on digit sequences of equal length, for a >= b
RECURSIVE SubDigits(_, _, _)
SubDigits(a, b, borrow) ==
    IF a = <<>> THEN <<>>
    ELSE LET d == Last(a) - Last(b) - borrow
         IN  Append(SubDigits(Front(a), Front(b), IF d < 0 THEN 1 ELSE 0),
                    IF d < 0 THEN d + 10 ELSE d)

\* a * k + carry for one digit k
RECURSIVE MulDigit(_, _, _)
MulDigit(a, k, carry) ==
    IF a = <<>> THEN NatDigits(carry)
    ELSE LET p == Last(a) * k + carry
         IN  Append(MulDigit(Front(a), k, p \div 10), p % 10)

\* a * b, schoolbook, most significant digit of b first
RECURSIVE MulDigits(_, _)
MulDigits(a, b) ==
    IF b = <<>> THEN <<>>
    ELSE StripLeading(AddDigits(Append(MulDigits(a, Front(b)), 0),
                                MulDigit(a, Last(b), 0), 0))

\* the number with the given sign, digits and scale, in normal form
RECURSIVE Number(_, _, _)
Number(neg, dig, e) ==
    IF e > 0 /\ dig # <<>> /\ Last(dig) = 0 THEN Number(neg, Front(dig), e - 1)
    ELSE IF StripLeading(dig) = <<>> THEN [neg |-> neg, dig |-> <<>>, e |-> 0]
    ELSE [neg |-> neg, dig |-> StripLeading(dig), e |-> e]

Num(n, e) == Number(FALSE, NatDigits(n), e)

One == Num(1, 0)

IsZero(x) == x.dig = <<>>

\* x <= 0
NotPositive(x) == x.neg \/ IsZero(x)

\* x * y
Times(x, y) == Number(x.neg # y.neg, MulDigits(x.dig, y.dig), x.e + y.e)

\* x / 100
Percent(x) == Number(x.neg, x.dig, x.e + 2)

\* 1 - x, for 0 <= x <= 1
OneMinus(x) ==
    LET one == Append(Zeros(x.e), 0)
        pad == Zeros(Len(one) - Len(x.dig)) \o x.dig
    IN  Number(FALSE, SubDigits([one EXCEPT ![1] = 1], pad, 0), x.e)

\* ------------------------------------------------------------------------
\* parseFloat and Number.prototype.toFixed
\* ------------------------------------------------------------------------

\* parseFloat(text) for a decimal literal: an optional "-", digits, and
\* optionally "." and more digits.  Every text of the model is one.
parseFloat(text) ==
    LET neg  == text # <<>> /\ Head(text) = "-"
        body == IF neg THEN Tail(text) ELSE text
        dots == {i \in 1..Len(body) : body[i] = "."}
        dot  == IF dots = {} THEN Len(body) + 1 ELSE CHOOSE i \in dots : TRUE
        int  == SubSeq(body, 1, dot - 1)
        frac == SubSeq(body, dot + 1, Len(body))
        all  == int \o frac
    IN  Number(neg, [i \in 1..Len(all) |-> DigitOf(all[i])], Len(frac))

\* the digits of x * 10^f rounded to an integer, a tie going up
Rounded(x, f) ==
    IF x.e <= f THEN x.dig \o Zeros(f - x.e)
    ELSE LET keep == Len(x.dig) - (x.e - f)
             kept == IF keep > 0 THEN SubSeq(x.dig, 1, keep) ELSE <<>>
             next == IF keep >= 0 THEN x.dig[keep + 1] ELSE 0
         IN  IF next >= 5 THEN AddDigits(kept, <<1>>, 0) ELSE kept

\* x.toFixed(f)
toFixed(x, f) ==
    LET n    == Rounded(x, f)
        pad  == IF Len(n) > f THEN n ELSE Zeros(f + 1 - Len(n)) \o n
        text == [i \in 1..Len(pad) |-> DigitChars[pad[i] + 1]]
        cut  == Len(pad) - f
    IN  (IF x.neg THEN <<"-">> ELSE <<>>)
          \o SubSeq(text, 1, cut)
          \o (IF f > 0 THEN <<".">> ELSE <<>>)
          \o SubSeq(text, cut + 1, Len(text))

\* ------------------------------------------------------------------------
\* Reference data of the store
\* ------------------------------------------------------------------------

\* the registry; an asset is modelled by its symbol
assets == {"ETH", "BTC"}

\* `${fromAsset.symbol}-${toAsset.symbol}`
PairKey(from, to) == <<from, to>>

MOCK_EXCHANGE_RATES ==
    [k \in {<<"BTC", "ETH">>, <<"ETH", "BTC">>} |->
        IF k = <<"BTC", "ETH">> THEN Num(667, 4) ELSE Num(15, 0)]

\* delays of the three setTimeout calls, in milliseconds
QuoteDelay == 1000
ExchangeDelay == 300
SettlementDelay == 2000

Null == <<>>

Some(v) == <<v>>

\* ------------------------------------------------------------------------
\* Inputs of the actions
\* ------------------------------------------------------------------------

\* texts typed into the amount fields
AmountTexts == {<<>>, <<"0">>, <<"-", "1">>, <<"1">>, <<"2">>, <<"1", "0">>}

OutputTexts == {<<>>, <<"3">>}

\* a result of Math.random() * 2
PriceImpacts == {Num(15, 1)}

SlippageValues == {Num(5, 1), Num(1, 0)}

DeadlineValues == {20, 30}

WarningValues == {Null, Some("High price impact")}

\* ------------------------------------------------------------------------
\* State
\* ------------------------------------------------------------------------

VARIABLES
    fromAsset,          \* SwapState.fromAsset (its symbol)
    toAsset,            \* SwapState.toAsset (its symbol)
    inputAmount,        \* text
    outputAmount,       \* text
    quote,              \* Null or Some(Quote)
    isQuoteLoading,
    isSwapPending,
    isExchanging,
    exchangeDirection,  \* "normal" or "reversed"
    error,              \* Null or Some(message)
    warning,            \* Null or Some(message)
    slippageTolerance,  \* number
    deadline,           \* minutes
    timers,             \* the pending setTimeout callbacks, in firing order
    actions,            \* calls made so far
    previous,           \* the call made by the last step, if it was one of
                        \* swapAssets and resetForm
    afterReset          \* a reset has been made and the form has not been
                        \* edited since

form == <<fromAsset, toAsset, inputAmount, outputAmount, quote, isQuoteLoading,
          isSwapPending, isExchanging, exchangeDirection, error, warning,
          slippageTolerance, deadline>>

vars == <<form, timers, actions, previous, afterReset>>

\* ------------------------------------------------------------------------
\* Timers.  A callback registered with delay d fires after every pending
\* callback whose delay is at most d (that one was registered earlier and
\* is due earlier); it may fire before or after a pending callback with a
\* longer delay.
\* ------------------------------------------------------------------------

Delay(t) ==
    CASE t.kind = "quote" -> QuoteDelay
      [] t.kind = "exchange" -> ExchangeDelay
      [] t.kind = "settlement" -> SettlementDelay

\* mutant: callbacks fire in any order
Slots_AnyOrder(t) == 1..(Len(timers) + 1)

Slots(t) ==
    {p \in 1..(Len(timers) + 1) :
        \A i \in p..Len(timers) : Delay(timers[i]) > Delay(t)}

InsertAt(s, p, t) == SubSeq(s, 1, p - 1) \o <<t>> \o SubSeq(s, p, Len(s))

\* setTimeout(callback, delay)
setTimeout(t) == \E p \in Slots(t) : timers' = InsertAt(timers, p, t)

QuoteTimer(amount, from, to) ==
    [kind |-> "quote", amount |-> amount, from |-> from, to |-> to]

ExchangeTimer == [kind |-> "exchange"]

SettlementTimer == [kind |-> "settlement"]

\* ------------------------------------------------------------------------
\* The store
\* ------------------------------------------------------------------------

initialState ==
    [fromAsset         |-> "BTC",
     toAsset           |-> "ETH",
     inputAmount       |-> <<>>,
     outputAmount      |-> <<>>,
     quote             |-> Null,
     isQuoteLoading    |-> FALSE,
     isSwapPending     |-> FALSE,
     isExchanging      |-> FALSE,
     exchangeDirection |-> "normal",
     error             |-> Null,
     warning           |-> Null,
     slippageTolerance |-> Num(5, 1),
     deadline          |-> 20]

\* the store after create(): ...initialState, and no timer pending
Init ==
    /\ fromAsset = initialState.fromAsset
    /\ toAsset = initialState.toAsset
    /\ inputAmount = initialState.inputAmount
    /\ outputAmount = initialState.outputAmount
    /\ quote = initialState.quote
    /\ isQuoteLoading = initialState.isQuoteLoading
    /\ isSwapPending = initialState.isSwapPending
    /\ isExchanging = initialState.isExchanging
    /\ exchangeDirection = initialState.exchangeDirection
    /\ error = initialState.error
    /\ warning = initialState.warning
    /\ slippageTolerance = initialState.slippageTolerance
    /\ deadline = initialState.deadline
    /\ timers = <<>>
    /\ actions = 0
    /\ previous = Null
    /\ afterReset = FALSE

\* calculateQuote up to its await: the amount guard, or the loading flag
\* and the latency timer
calculateQuote(amount, from, to) ==
    IF amount = <<>> \/ NotPositive(parseFloat(amount))
    THEN /\ quote' = Null
         /\ outputAmount' = <<>>
         /\ error' = Null
         /\ UNCHANGED <<isQuoteLoading, timers>>
    ELSE /\ isQuoteLoading' = TRUE
         /\ error' = Null
         /\ setTimeout(QuoteTimer(amount, from, to))
         /\ UNCHANGED <<quote, outputAmount>>

\* one more call, within the bound
Call ==
    /\ actions < MaxActions
    /\ actions' = actions + 1

quoteFrame == <<quote, outputAmount, error, isQuoteLoading, timers>>

setInputAmount(amount) ==
    /\ inputAmount' = amount
    /\ IF amount # <<>>
       THEN calculateQuote(amount, fromAsset, toAsset)
       ELSE UNCHANGED quoteFrame
    /\ UNCHANGED <<fromAsset, toAsset, isSwapPending, isExchanging,
                   exchangeDirection, warning, slippageTolerance, deadline>>
    /\ Call

\* mutant: setOutputAmount drops the quote the text overrides
setOutputAmount_ClearsQuote(amount) ==
    /\ outputAmount' = amount
    /\ quote' = Null
    /\ UNCHANGED <<fromAsset, toAsset, inputAmount, isQuoteLoading,
                   isSwapPending, isExchanging, exchangeDirection, error,
                   warning, slippageTolerance, deadline, timers>>
    /\ Call

setOutputAmount(amount) ==
    /\ outputAmount' = amount
    /\ UNCHANGED <<fromAsset, toAsset, inputAmount, quote, isQuoteLoading,
                   isSwapPending, isExchanging, exchangeDirection, error,
                   warning, slippageTolerance, deadline, timers>>
    /\ Call

\* mutant: setFromAsset requests the quote for the pair it replaces
setFromAsset_QuotesOldPair(asset) ==
    /\ fromAsset' = asset
    /\ IF inputAmount # <<>>
       THEN calculateQuote(inputAmount, fromAsset, toAsset)
       ELSE UNCHANGED quoteFrame
    /\ UNCHANGED <<toAsset, inputAmount, isSwapPending, isExchanging,
                   exchangeDirection, warning, slippageTolerance, deadline>>
    /\ Call

setFromAsset(asset) ==
    /\ fromAsset' = asset
    /\ IF inputAmount # <<>>
       THEN calculateQuote(inputAmount, asset, toAsset)
       ELSE UNCHANGED quoteFrame
    /\ UNCHANGED <<toAsset, inputAmount, isSwapPending, isExchanging,
                   exchangeDirection, warning, slippageTolerance, deadline>>
    /\ Call

setToAsset(asset) ==
    /\ toAsset' = asset
    /\ IF inputAmount # <<>>
       THEN calculateQuote(inputAmount, fromAsset, asset)
       ELSE UNCHANGED quoteFrame
    /\ UNCHANGED <<fromAsset, inputAmount, isSwapPending, isExchanging,
                   exchangeDirection, warning, slippageTolerance, deadline>>
    /\ Call

\* mutant: swapAssets drops the quote
swapAssets_ClearsQuote ==
    /\ fromAsset' = toAsset
    /\ toAsset' = fromAsset
    /\ inputAmount' = outputAmount
    /\ outputAmount' = inputAmount
    /\ isExchanging' = TRUE
    /\ exchangeDirection' =
           IF exchangeDirection = "normal" THEN "reversed" ELSE "normal"
    /\ setTimeout(ExchangeTimer)
    /\ quote' = Null
    /\ UNCHANGED <<isQuoteLoading, isSwapPending, error, warning,
                   slippageTolerance, deadline>>
    /\ Call

\* mutant: swapAssets copies outputAmount into inputAmount and keeps it
swapAssets_KeepsOutput ==
    /\ fromAsset' = toAsset
    /\ toAsset' = fromAsset
    /\ inputAmount' = outputAmount
    /\ outputAmount' = outputAmount
    /\ isExchanging' = TRUE
    /\ exchangeDirection' =
           IF exchangeDirection = "normal" THEN "reversed" ELSE "normal"
    /\ setTimeout(ExchangeTimer)
    /\ UNCHANGED <<quote, isQuoteLoading, isSwapPending, error, warning,
                   slippageTolerance, deadline>>
    /\ Call

swapAssets ==
    /\ fromAsset' = toAsset
    /\ toAsset' = fromAsset
    /\ inputAmount' = outputAmount
    /\ outputAmount' = inputAmount
    /\ isExchanging' = TRUE
    /\ exchangeDirection' =
           IF exchangeDirection = "normal" THEN "reversed" ELSE "normal"
    /\ setTimeout(ExchangeTimer)
    /\ UNCHANGED <<quote, isQuoteLoading, isSwapPending, error, warning,
                   slippageTolerance, deadline>>
    /\ Call

\* mutant: only the timer of the latest swapAssets clears the flag
exchangeTimeout_LatestOnly ==
    /\ timers # <<>>
    /\ Head(timers).kind = "exchange"
    /\ timers' = Tail(timers)
    /\ isExchanging' =
           (isExchanging /\ \E i \in 2..Len(timers) : timers[i].kind = "exchange")
    /\ UNCHANGED <<fromAsset, toAsset, inputAmount, outputAmount, quote,
                   isQuoteLoading, isSwapPending, exchangeDirection, error,
                   warning, slippageTolerance, deadline, actions>>

\* the callback of the timer of swapAssets
exchangeTimeout ==
    /\ timers # <<>>
    /\ Head(timers).kind = "exchange"
    /\ timers' = Tail(timers)
    /\ isExchanging' = FALSE
    /\ UNCHANGED <<fromAsset, toAsset, inputAmount, outputAmount, quote,
                   isQuoteLoading, isSwapPending, exchangeDirection, error,
                   warning, slippageTolerance, deadline, actions>>

\* mutant: the slippage percentage taken as a fraction
Quote_SlippageAsFraction(amount, exchangeRate, priceImpact, slippage) ==
    LET input  == parseFloat(amount)
        output == Times(input, exchangeRate)
    IN  [inputAmount     |-> input,
         outputAmount    |-> output,
         exchangeRate    |-> exchangeRate,
         priceImpact     |-> priceImpact,
         minimumReceived |-> Times(output, OneMinus(slippage)),
         slippage        |-> slippage]

\* the Quote built by calculateQuote; its timestamp (Date.now()), which
\* nothing reads, is left out
Quote(amount, exchangeRate, priceImpact, slippage) ==
    LET input  == parseFloat(amount)
        output == Times(input, exchangeRate)
    IN  [inputAmount     |-> input,
         outputAmount    |-> output,
         exchangeRate    |-> exchangeRate,
         priceImpact     |-> priceImpact,
         minimumReceived |-> Times(output, OneMinus(Percent(slippage))),
         slippage        |-> slippage]

\* calculateQuote after its await, a rate being found
quoteResolved ==
    /\ timers # <<>>
    /\ Head(timers).kind = "quote"
    /\ PairKey(Head(timers).from, Head(timers).to) \in DOMAIN MOCK_EXCHANGE_RATES
    /\ timers' = Tail(timers)
    /\ \E priceImpact \in PriceImpacts :
         LET q == Quote(Head(timers).amount,
                        MOCK_EXCHANGE_RATES[PairKey(Head(timers).from,
                                                    Head(timers).to)],
                        priceImpact, slippageTolerance)
         IN  /\ quote' = Some(q)
             /\ outputAmount' = toFixed(q.outputAmount, 6)
    /\ isQuoteLoading' = FALSE
    /\ error' = Null
    /\ UNCHANGED <<fromAsset, toAsset, inputAmount, isSwapPending,
                   isExchanging, exchangeDirection, warning,
                   slippageTolerance, deadline, actions>>

\* mutant: the catch block leaves isQuoteLoading set
quoteRejected_KeepsLoading ==
    /\ timers # <<>>
    /\ Head(timers).kind = "quote"
    /\ PairKey(Head(timers).from, Head(timers).to) \notin DOMAIN MOCK_EXCHANGE_RATES
    /\ timers' = Tail(timers)
    /\ error' = Some("Exchange rate not available")
    /\ quote' = Null
    /\ outputAmount' = <<>>
    /\ UNCHANGED <<fromAsset, toAsset, inputAmount, isQuoteLoading,
                   isSwapPending, isExchanging, exchangeDirection, warning,
                   slippageTolerance, deadline, actions>>

\* mutant: the catch block empties inputAmount as well
quoteRejected_ClearsInput ==
    /\ timers # <<>>
    /\ Head(timers).kind = "quote"
    /\ PairKey(Head(timers).from, Head(timers).to) \notin DOMAIN MOCK_EXCHANGE_RATES
    /\ timers' = Tail(timers)
    /\ isQuoteLoading' = FALSE
    /\ error' = Some("Exchange rate not available")
    /\ quote' = Null
    /\ outputAmount' = <<>>
    /\ inputAmount' = <<>>
    /\ UNCHANGED <<fromAsset, toAsset, isSwapPending, isExchanging,
                   exchangeDirection, warning, slippageTolerance, deadline,
                   actions>>

\* mutant: the catch block leaves outputAmount as it is
quoteRejected_KeepsOutput ==
    /\ timers # <<>>
    /\ Head(timers).kind = "quote"
    /\ PairKey(Head(timers).from, Head(timers).to) \notin DOMAIN MOCK_EXCHANGE_RATES
    /\ timers' = Tail(timers)
    /\ isQuoteLoading' = FALSE
    /\ error' = Some("Exchange rate not available")
    /\ quote' = Null
    /\ UNCHANGED <<fromAsset, toAsset, inputAmount, outputAmount,
                   isSwapPending, isExchanging, exchangeDirection, warning,
                   slippageTolerance, deadline, actions>>

\* calculateQuote after its await, no rate being found: the catch block
quoteRejected ==
    /\ timers # <<>>
    /\ Head(timers).kind = "quote"
    /\ PairKey(Head(timers).from, Head(timers).to) \notin DOMAIN MOCK_EXCHANGE_RATES
    /\ timers' = Tail(timers)
    /\ isQuoteLoading' = FALSE
    /\ error' = Some("Exchange rate not available")
    /\ quote' = Null
    /\ outputAmount' = <<>>
    /\ UNCHANGED <<fromAsset, toAsset, inputAmount, isSwapPending,
                   isExchanging, exchangeDirection, warning,
                   slippageTolerance, deadline, actions>>

setWarning(w) ==
    /\ warning' = w
    /\ UNCHANGED <<fromAsset, toAsset, inputAmount, outputAmount, quote,
                   isQuoteLoading, isSwapPending, isExchanging,
                   exchangeDirection, error, slippageTolerance, deadline,
                   timers>>
    /\ Call

setSlippageTolerance(slippage) ==
    /\ slippageTolerance' = slippage
    /\ UNCHANGED <<fromAsset, toAsset, inputAmount, outputAmount, quote,
                   isQuoteLoading, isSwapPending, isExchanging,
                   exchangeDirection, error, warning, deadline, timers>>
    /\ Call

setDeadline(d) ==
    /\ deadline' = d
    /\ UNCHANGED <<fromAsset, toAsset, inputAmount, outputAmount, quote,
                   isQuoteLoading, isSwapPending, isExchanging,
                   exchangeDirection, error, warning, slippageTolerance,
                   timers>>
    /\ Call

\* mutant: resetSwap leaves the settings as they are
resetSwap_KeepsSettings ==
    /\ fromAsset' = initialState.fromAsset
    /\ toAsset' = initialState.toAsset
    /\ inputAmount' = initialState.inputAmount
    /\ outputAmount' = initialState.outputAmount
    /\ quote' = initialState.quote
    /\ isQuoteLoading' = initialState.isQuoteLoading
    /\ isSwapPending' = initialState.isSwapPending
    /\ isExchanging' = initialState.isExchanging
    /\ exchangeDirection' = initialState.exchangeDirection
    /\ error' = initialState.error
    /\ warning' = initialState.warning
    /\ UNCHANGED <<slippageTolerance, deadline, timers>>
    /\ Call

\* set(initialState)
resetSwap ==
    /\ fromAsset' = initialState.fromAsset
    /\ toAsset' = initialState.toAsset
    /\ inputAmount' = initialState.inputAmount
    /\ outputAmount' = initialState.outputAmount
    /\ quote' = initialState.quote
    /\ isQuoteLoading' = initialState.isQuoteLoading
    /\ isSwapPending' = initialState.isSwapPending
    /\ isExchanging' = initialState.isExchanging
    /\ exchangeDirection' = initialState.exchangeDirection
    /\ error' = initialState.error
    /\ warning' = initialState.warning
    /\ slippageTolerance' = initialState.slippageTolerance
    /\ deadline' = initialState.deadline
    /\ UNCHANGED timers
    /\ Call

\* mutant: resetForm restores the default settings as well
resetForm_ResetsSettings ==
    /\ inputAmount' = <<>>
    /\ outputAmount' = <<>>
    /\ quote' = Null
    /\ error' = Null
    /\ warning' = Null
    /\ slippageTolerance' = initialState.slippageTolerance
    /\ deadline' = initialState.deadline
    /\ UNCHANGED <<fromAsset, toAsset, isQuoteLoading, isSwapPending,
                   isExchanging, exchangeDirection, timers>>
    /\ Call

\* mutant: resetForm leaves warning as it is
ResetForm_KeepsWarning ==
    /\ inputAmount' = <<>>
    /\ outputAmount' = <<>>
    /\ quote' = Null
    /\ error' = Null
    /\ UNCHANGED warning

\* the fields resetForm sets
ResetForm ==
    /\ inputAmount' = <<>>
    /\ outputAmount' = <<>>
    /\ quote' = Null
    /\ error' = Null
    /\ warning' = Null

resetForm ==
    /\ ResetForm
    /\ UNCHANGED <<fromAsset, toAsset, isQuoteLoading, isSwapPending,
                   isExchanging, exchangeDirection, slippageTolerance,
                   deadline, timers>>
    /\ Call

\* ------------------------------------------------------------------------
\* The widget
\* ------------------------------------------------------------------------

\* the action button is disabled while a swap or a quote is pending
ButtonEnabled == ~(isSwapPending \/ isQuoteLoading)

\* mutant: the precondition does not look at outputAmount
handleSwap_NoOutputCheck ==
    /\ ButtonEnabled
    /\ IF quote = Null \/ inputAmount = <<>>
       THEN /\ error' = Some("Invalid swap parameters")
            /\ UNCHANGED <<isSwapPending, timers>>
       ELSE /\ isSwapPending' = TRUE
            /\ error' = Null
            /\ setTimeout(SettlementTimer)
    /\ UNCHANGED <<fromAsset, toAsset, inputAmount, outputAmount, quote,
                   isQuoteLoading, isExchanging, exchangeDirection, warning,
                   slippageTolerance, deadline>>
    /\ Call

\* handleSwap up to its await.  quote, inputAmount and outputAmount are
\* those of the render the click was made on.
handleSwap ==
    /\ ButtonEnabled
    /\ IF quote = Null \/ inputAmount = <<>> \/ outputAmount = <<>>
       THEN /\ error' = Some("Invalid swap parameters")
            /\ UNCHANGED <<isSwapPending, timers>>
       ELSE /\ isSwapPending' = TRUE
            /\ error' = Null
            /\ setTimeout(SettlementTimer)
    /\ UNCHANGED <<fromAsset, toAsset, inputAmount, outputAmount, quote,
                   isQuoteLoading, isExchanging, exchangeDirection, warning,
                   slippageTolerance, deadline>>
    /\ Call

\* handleSwap after its await, the settlement having succeeded:
\* resetForm(), then the finally block
swapSucceeded ==
    /\ timers # <<>>
    /\ Head(timers).kind = "settlement"
    /\ timers' = Tail(timers)
    /\ ResetForm
    /\ isSwapPending' = FALSE
    /\ UNCHANGED <<fromAsset, toAsset, isQuoteLoading, isExchanging,
                   exchangeDirection, slippageTolerance, deadline, actions>>

\* mutant: isSwapPending is cleared on success only
swapFailed_NoFinally ==
    /\ timers # <<>>
    /\ Head(timers).kind = "settlement"
    /\ timers' = Tail(timers)
    /\ error' = Some("Swap failed. Please try again.")
    /\ UNCHANGED <<fromAsset, toAsset, inputAmount, outputAmount, quote,
                   isQuoteLoading, isSwapPending, isExchanging,
                   exchangeDirection, warning, slippageTolerance, deadline,
                   actions>>

\* mutant: the catch block clears the amounts and the quote
swapFailed_ClearsForm ==
    /\ timers # <<>>
    /\ Head(timers).kind = "settlement"
    /\ timers' = Tail(timers)
    /\ error' = Some("Swap failed. Please try again.")
    /\ isSwapPending' = FALSE
    /\ inputAmount' = <<>>
    /\ outputAmount' = <<>>
    /\ quote' = Null
    /\ UNCHANGED <<fromAsset, toAsset, isQuoteLoading, isExchanging,
                   exchangeDirection, warning, slippageTolerance, deadline,
                   actions>>

\* handleSwap after its await, the settlement having failed: the catch
\* block, then the finally block.  The settlement is an external request;
\* its rejection is the way into the catch block.
swapFailed ==
    /\ timers # <<>>
    /\ Head(timers).kind = "settlement"
    /\ timers' = Tail(timers)
    /\ error' = Some("Swap failed. Please try again.")
    /\ isSwapPending' = FALSE
    /\ UNCHANGED <<fromAsset, toAsset, inputAmount, outputAmount, quote,
                   isQuoteLoading, isExchanging, exchangeDirection, warning,
                   slippageTolerance, deadline, actions>>

\* ------------------------------------------------------------------------
\* Specification
\* ------------------------------------------------------------------------

\* the values swapAssets exchanges
Exchanged == <<fromAsset, toAsset, inputAmount, outputAmount, exchangeDirection>>

\* the last step was a call of the named action
Previous(name) == previous # Null /\ previous[1].name = name

\* the step is a call of swapAssets or of resetForm: previous holds its name,
\* for swapAssets the values it was called on, and whether the step before
\* was a call of the same action
Called(name, on) ==
    previous' = Some([name |-> name, on |-> on, again |-> Previous(name)])

\* the step is something else
Other == previous' = Null

\* the step edits the form
Edit == afterReset' = FALSE

\* the step resets the form
Reset == afterReset' = TRUE

\* the step is neither an edit nor a reset
Keep == UNCHANGED afterReset

Next ==
    \/ (\E amount \in AmountTexts : setInputAmount(amount)) /\ Other /\ Edit
    \/ (\E amount \in OutputTexts : setOutputAmount(amount)) /\ Other /\ Edit
    \/ (\E asset \in assets : setFromAsset(asset)) /\ Other /\ Edit
    \/ (\E asset \in assets : setToAsset(asset)) /\ Other /\ Edit
    \/ swapAssets /\ Called("swapAssets", Exchanged) /\ Edit
    \/ exchangeTimeout /\ Other /\ Keep
    \/ quoteResolved /\ Other /\ Keep
    \/ quoteRejected /\ Other /\ Keep
    \/ (\E w \in WarningValues : setWarning(w)) /\ Other /\ Keep
    \/ (\E slippage \in SlippageValues : setSlippageTolerance(slippage)) /\ Other /\ Keep
    \/ (\E d \in DeadlineValues : setDeadline(d)) /\ Other /\ Keep
    \/ resetSwap /\ Other /\ Reset
    \/ resetForm /\ Called("resetForm", <<>>) /\ Reset
    \/ handleSwap /\ Other /\ Keep
    \/ swapSucceeded /\ Other /\ Reset
    \/ swapFailed /\ Other /\ Keep

Spec == Init /\ [][Next]_vars

\* amount edits, asset changes and the completions of their requests only
NextEdits ==
    \/ (\E amount \in AmountTexts : setInputAmount(amount)) /\ Other /\ Edit
    \/ (\E asset \in assets : setFromAsset(asset)) /\ Other /\ Edit
    \/ (\E asset \in assets : setToAsset(asset)) /\ Other /\ Edit
    \/ quoteResolved /\ Other /\ Keep
    \/ quoteRejected /\ Other /\ Keep

SpecEdits == Init /\ [][NextEdits]_vars

\* the edits of the form, swapAssets, handleSwap and the callbacks only: no
\* reset and no change of the settings
NextSwaps ==
    \/ (\E amount \in AmountTexts : setInputAmount(amount)) /\ Other /\ Edit
    \/ (\E amount \in OutputTexts : setOutputAmount(amount)) /\ Other /\ Edit
    \/ (\E asset \in assets : setFromAsset(asset)) /\ Other /\ Edit
    \/ (\E asset \in assets : setToAsset(asset)) /\ Other /\ Edit
    \/ swapAssets /\ Called("swapAssets", Exchanged) /\ Edit
    \/ exchangeTimeout /\ Other /\ Keep
    \/ quoteResolved /\ Other /\ Keep
    \/ quoteRejected /\ Other /\ Keep
    \/ handleSwap /\ Other /\ Keep
    \/ swapSucceeded /\ Other /\ Reset
    \/ swapFailed /\ Other /\ Keep

SpecSwaps == Init /\ [][NextSwaps]_vars

\* A pending timer fires when its delay has elapsed.  The steps that remove
\* the head of timers are the callbacks (exchangeTimeout, quoteResolved,
\* quoteRejected, swapSucceeded, swapFailed), one of which is enabled
\* whenever a timer is pending.
TimerFires ==
    /\ timers # <<>>
    /\ timers' = Tail(timers)

FairSpec == Spec /\ WF_timers(TimerFires)

\* ------------------------------------------------------------------------
\* Properties
\* ------------------------------------------------------------------------

\* the callback at the head of the timers runs in this step
Completes(kind) ==
    /\ timers # <<>>
    /\ Head(timers).kind = kind
    /\ timers' = Tail(timers)

Supported(from, to) == PairKey(from, to) \in DOMAIN MOCK_EXCHANGE_RATES

RateOf(from, to) == MOCK_EXCHANGE_RATES[PairKey(from, to)]

Positive(text) == text # <<>> /\ ~NotPositive(parseFloat(text))

QuotePending == \E i \in 1..Len(timers) : timers[i].kind = "quote"

T1 == <<"1">>

T2 == <<"2">>

T10 == <<"1", "0">>

\* C1: the completion of a quote request that was issued for inputs other
\* than the current (inputAmount, fromAsset, toAsset), while a newer request
\* is outstanding, writes none of quote, outputAmount, error and
\* isQuoteLoading.
C1_StaleCompletionWritesNothing ==
    [][(/\ Completes("quote")
        /\ \E i \in 2..Len(timers) : timers[i].kind = "quote"
        /\ \/ Head(timers).amount # inputAmount
           \/ Head(timers).from # fromAsset
           \/ Head(timers).to # toAsset)
         => UNCHANGED <<quote, outputAmount, error, isQuoteLoading>>]_vars

\* C2: whenever a quote is present it was produced from the current
\* inputAmount, the current pair and the current slippageTolerance.
C2_QuoteMatchesForm ==
    quote # Null =>
        /\ quote[1].inputAmount = parseFloat(inputAmount)
        /\ Supported(fromAsset, toAsset)
        /\ quote[1].exchangeRate = RateOf(fromAsset, toAsset)
        /\ quote[1].slippage = slippageTolerance

\* C3: under amount edits, asset changes and completions, once no quote
\* request is outstanding the quote is the one of the latest input: with
\* inputAmount "2" on a supported pair, quote.inputAmount is 2 and
\* outputAmount is the 6-decimal rendering of 2 times the pair's rate, never
\* the result computed for an earlier amount.
C3_FinalQuoteIsLatest ==
    (~QuotePending /\ Positive(inputAmount) /\ Supported(fromAsset, toAsset)) =>
        /\ quote # Null
        /\ quote[1].inputAmount = parseFloat(inputAmount)
        /\ outputAmount =
               toFixed(Times(parseFloat(inputAmount), RateOf(fromAsset, toAsset)), 6)
        /\ (inputAmount = T2 =>
               /\ quote[1].inputAmount = Num(2, 0)
               /\ quote[1].inputAmount # Num(1, 0)
               /\ outputAmount # toFixed(Times(Num(1, 0), RateOf(fromAsset, toAsset)), 6))

\* the result for "1" has landed after the edit to "2", whose request is
\* still outstanding
C3_Witness ==
    /\ inputAmount = T2
    /\ timers = <<QuoteTimer(T2, "BTC", "ETH")>>
    /\ ~isQuoteLoading
    /\ quote # Null
    /\ quote[1].inputAmount = Num(1, 0)

\* C4: setInputAmount with a text that is empty or parses to a value <= 0,
\* and setFromAsset/setToAsset called while inputAmount is such a text,
\* leave quote absent, outputAmount empty and error absent, and issue no
\* request.
C4_NonPositiveClears ==
    [][((\E amount \in AmountTexts : ~Positive(amount) /\ setInputAmount(amount))
        \/ (~Positive(inputAmount) /\ \E asset \in assets :
               setFromAsset(asset) \/ setToAsset(asset)))
         => (/\ quote' = Null
             /\ outputAmount' = <<>>
             /\ error' = Null
             /\ timers' = timers)]_vars

\* C5: when a quote request for a positive amount and a pair without a rate
\* completes, error is a non-empty message, quote is absent, outputAmount
\* is empty and isQuoteLoading is false.
C5_UnsupportedPairFails ==
    [][(/\ Completes("quote")
        /\ Positive(Head(timers).amount)
        /\ ~Supported(Head(timers).from, Head(timers).to))
         => (/\ error' # Null
             /\ error'[1] # ""
             /\ quote' = Null
             /\ outputAmount' = <<>>
             /\ isQuoteLoading' = FALSE)]_vars

C5_Witness ==
    /\ Positive(inputAmount)
    /\ fromAsset = toAsset
    /\ error = Some("Exchange rate not available")
    /\ quote = Null
    /\ outputAmount = <<>>
    /\ ~isQuoteLoading

\* C6: the quote stored by the successful completion of a request for a
\* positive amount a on a pair with rate r has inputAmount = a,
\* exchangeRate = r, outputAmount = a * r and minimumReceived =
\* outputAmount * (1 - slippage / 100) for the slippage it records, which
\* is the slippageTolerance; isQuoteLoading becomes false and error absent.
\* 1 BTC at 0.5 gives 0.0667 and at least 0.0663665; 10 ETH at 0.5 gives
\* 150 and at least 149.25.
C6_QuoteArithmetic ==
    [][(/\ Completes("quote")
        /\ Positive(Head(timers).amount)
        /\ Supported(Head(timers).from, Head(timers).to))
         => LET a == parseFloat(Head(timers).amount)
                r == RateOf(Head(timers).from, Head(timers).to)
                q == quote'[1]
            IN  /\ quote' # Null
                /\ q.inputAmount = a
                /\ q.exchangeRate = r
                /\ q.outputAmount = Times(a, r)
                /\ q.slippage = slippageTolerance
                /\ q.minimumReceived =
                       Times(q.outputAmount, OneMinus(Percent(q.slippage)))
                /\ isQuoteLoading' = FALSE
                /\ error' = Null
                /\ (/\ Head(timers).amount = T1
                    /\ Head(timers).from = "BTC"
                    /\ Head(timers).to = "ETH"
                    /\ slippageTolerance = Num(5, 1))
                     => (/\ q.outputAmount = Num(667, 4)
                         /\ q.minimumReceived = Num(663665, 7)
                         /\ outputAmount' =
                                <<"0", ".", "0", "6", "6", "7", "0", "0">>)
                /\ (/\ Head(timers).amount = T10
                    /\ Head(timers).from = "ETH"
                    /\ Head(timers).to = "BTC"
                    /\ slippageTolerance = Num(5, 1))
                     => (/\ q.outputAmount = Num(150, 0)
                         /\ q.minimumReceived = Num(14925, 2)
                         /\ outputAmount' =
                                <<"1", "5", "0", ".", "0", "0", "0", "0", "0", "0">>)]_vars

C6_Witness ==
    /\ inputAmount = T10
    /\ fromAsset = "ETH"
    /\ toAsset = "BTC"
    /\ quote # Null
    /\ quote[1].inputAmount = Num(10, 0)
    /\ quote[1].minimumReceived = Num(14925, 2)
    /\ outputAmount = <<"1", "5", "0", ".", "0", "0", "0", "0", "0", "0">>
    /\ ~isQuoteLoading
    /\ error = Null

InvalidSwap == quote = Null \/ inputAmount = <<>> \/ outputAmount = <<>>

\* C7: handleSwap called with quote absent, inputAmount empty or
\* outputAmount empty sets error to 'Invalid swap parameters', leaves
\* inputAmount, outputAmount and isSwapPending as they were (isSwapPending
\* stays false) and starts no settlement.
C7_InvalidSwapRejected ==
    [][(InvalidSwap /\ handleSwap)
         => (/\ error' = Some("Invalid swap parameters")
             /\ inputAmount' = inputAmount
             /\ outputAmount' = outputAmount
             /\ isSwapPending' = FALSE
             /\ timers' = timers)]_vars

C7_Witness ==
    /\ error = Some("Invalid swap parameters")
    /\ quote # Null
    /\ inputAmount # <<>>
    /\ outputAmount = <<>>
    /\ ~isSwapPending
    /\ timers = <<>>

\* C8: a handleSwap that passes its precondition sets isSwapPending, the
\* completion of a settlement clears it whether the settlement succeeded or
\* failed, and, timers firing, isSwapPending = true leads to
\* isSwapPending = false.
C8_SwapPendingClears ==
    /\ [][(~InvalidSwap /\ handleSwap) => isSwapPending']_vars
    /\ [][Completes("settlement") => ~isSwapPending']_vars
    /\ (isSwapPending ~> ~isSwapPending)

C8_Witness ==
    /\ isSwapPending
    /\ timers # <<>>
    /\ Head(timers).kind = "settlement"

\* C9: the successful completion of a settlement applies resetForm:
\* inputAmount and outputAmount become empty, quote, error and warning
\* absent, and fromAsset, toAsset, slippageTolerance, deadline and
\* exchangeDirection stay what they were.
C9_SuccessResetsForm ==
    [][swapSucceeded
         => (/\ inputAmount' = <<>>
             /\ outputAmount' = <<>>
             /\ quote' = Null
             /\ error' = Null
             /\ warning' = Null
             /\ UNCHANGED <<fromAsset, toAsset, slippageTolerance, deadline,
                            exchangeDirection>>)]_vars

\* a settlement is about to complete on a form that holds a quote, a
\* warning and a slippage tolerance other than the default
C9_Witness ==
    /\ isSwapPending
    /\ timers # <<>>
    /\ Head(timers).kind = "settlement"
    /\ quote # Null
    /\ inputAmount # <<>>
    /\ outputAmount # <<>>
    /\ warning # Null
    /\ slippageTolerance # initialState.slippageTolerance

\* C10: the failed completion of a settlement sets error to a non-empty
\* message and leaves inputAmount, outputAmount, quote, fromAsset, toAsset,
\* slippageTolerance and deadline unchanged.
C10_FailureKeepsForm ==
    [][swapFailed
         => (/\ error' # Null
             /\ error'[1] # ""
             /\ UNCHANGED <<inputAmount, outputAmount, quote, fromAsset,
                            toAsset, slippageTolerance, deadline>>)]_vars

C10_Witness ==
    /\ error = Some("Swap failed. Please try again.")
    /\ ~isSwapPending
    /\ quote # Null
    /\ inputAmount # <<>>
    /\ outputAmount # <<>>

\* C11: swapAssets called twice in a row, nothing else and no callback in
\* between, restores fromAsset, toAsset, inputAmount, outputAmount and
\* exchangeDirection; each call takes exchangeDirection from one of 'normal'
\* and 'reversed' to the other.
C11_SwapAssetsInvolution ==
    /\ [][(Previous("swapAssets") /\ swapAssets)
             => Exchanged' = previous[1].on]_vars
    /\ [][swapAssets
             => (/\ exchangeDirection \in {"normal", "reversed"}
                 /\ exchangeDirection' \in {"normal", "reversed"}
                 /\ exchangeDirection' # exchangeDirection)]_vars

\* two calls in a row have been made on a form that holds a quoted amount
C11_Witness ==
    /\ Previous("swapAssets")
    /\ previous[1].again
    /\ previous[1].on = <<"ETH", "BTC", toFixed(Num(667, 4), 6), T1, "reversed">>
    /\ Exchanged = <<"BTC", "ETH", T1, toFixed(Num(667, 4), 6), "normal">>

\* C12: resetForm called right after resetForm changes no field, and no
\* call of resetForm changes fromAsset, toAsset, slippageTolerance or
\* deadline.
C12_ResetFormIdempotent ==
    /\ [][(Previous("resetForm") /\ resetForm) => UNCHANGED form]_vars
    /\ [][resetForm
             => UNCHANGED <<fromAsset, toAsset, slippageTolerance, deadline>>]_vars

\* two calls in a row have been made, the pair and the slippage tolerance
\* being other than the defaults
C12_Witness ==
    /\ Previous("resetForm")
    /\ previous[1].again
    /\ fromAsset = "ETH"
    /\ slippageTolerance = Num(1, 0)
    /\ inputAmount = <<>>
    /\ quote = Null

\* C13: right after resetSwap every field has its default: fromAsset BTC,
\* toAsset ETH, inputAmount and outputAmount empty, quote absent,
\* isQuoteLoading, isSwapPending and isExchanging false, exchangeDirection
\* 'normal', error and warning absent, slippageTolerance 0.5, deadline 20.
C13_ResetSwapRestoresDefaults ==
    [][resetSwap
         => (/\ fromAsset' = "BTC"
             /\ toAsset' = "ETH"
             /\ inputAmount' = <<>>
             /\ outputAmount' = <<>>
             /\ quote' = Null
             /\ isQuoteLoading' = FALSE
             /\ isSwapPending' = FALSE
             /\ isExchanging' = FALSE
             /\ exchangeDirection' = "normal"
             /\ error' = Null
             /\ warning' = Null
             /\ slippageTolerance' = Num(5, 1)
             /\ deadline' = 20)]_vars

\* every field has its default while a settlement is still outstanding:
\* resetSwap was called after handleSwap
C13_Witness ==
    /\ form = <<"BTC", "ETH", <<>>, <<>>, Null, FALSE, FALSE, FALSE, "normal",
                Null, Null, Num(5, 1), 20>>
    /\ \E i \in 1..Len(timers) : timers[i].kind = "settlement"

\* s without its p-th element
Without(s, p) == SubSeq(s, 1, p - 1) \o SubSeq(s, p + 1, Len(s))

\* the step registers the timer t and leaves the pending timers as they are
Registers(t) ==
    \E p \in 1..Len(timers') : timers'[p] = t /\ Without(timers', p) = timers

\* C14: swapAssets exchanges fromAsset with toAsset and inputAmount with
\* outputAmount in one step, flips exchangeDirection, sets isExchanging,
\* registers its own timer and no quote request, and leaves quote,
\* isQuoteLoading, isSwapPending, error, warning, slippageTolerance and
\* deadline unchanged.
C14_SwapAssetsEffect ==
    [][swapAssets
         => (/\ fromAsset' = toAsset
             /\ toAsset' = fromAsset
             /\ inputAmount' = outputAmount
             /\ outputAmount' = inputAmount
             /\ exchangeDirection' # exchangeDirection
             /\ isExchanging' = TRUE
             /\ Registers(ExchangeTimer)
             /\ UNCHANGED <<quote, isQuoteLoading, isSwapPending, error,
                            warning, slippageTolerance, deadline>>)]_vars

\* swapAssets has just been called on a quoted form: the amounts and the
\* pair are exchanged and the quote is still the one for 1 BTC
C14_Witness ==
    /\ Previous("swapAssets")
    /\ fromAsset = "ETH"
    /\ toAsset = "BTC"
    /\ inputAmount = toFixed(Num(667, 4), 6)
    /\ outputAmount = T1
    /\ exchangeDirection = "reversed"
    /\ isExchanging
    /\ quote # Null
    /\ quote[1].inputAmount = Num(1, 0)
    /\ ~QuotePending

\* C15: setOutputAmount(text) stores the text in outputAmount, issues no
\* quote request and leaves every other field unchanged, inputAmount,
\* quote, isQuoteLoading, error, fromAsset and toAsset among them.
C15_SetOutputAmountEffect ==
    [][\A amount \in OutputTexts :
           setOutputAmount(amount)
             => (/\ outputAmount' = amount
                 /\ UNCHANGED <<inputAmount, quote, isQuoteLoading, error,
                                fromAsset, toAsset, isSwapPending,
                                isExchanging, exchangeDirection, warning,
                                slippageTolerance, deadline, timers>>)]_vars

\* the output of a quoted form has been overridden by hand
C15_Witness ==
    /\ outputAmount = <<"3">>
    /\ inputAmount = T1
    /\ quote # Null
    /\ quote[1].outputAmount = Num(667, 4)
    /\ ~isQuoteLoading
    /\ error = Null
    /\ timers = <<>>

ExchangePending == \E i \in 1..Len(timers) : timers[i].kind = "exchange"

\* C16: each swapAssets sets isExchanging and registers its own clearing
\* timer, the pending ones staying in place; a clearing timer that fires
\* sets isExchanging to false, also while the timer of a later swapAssets is
\* pending; and with no clearing timer pending isExchanging is false.
C16_ExchangingClearedEarly ==
    /\ [][swapAssets => (isExchanging' /\ Registers(ExchangeTimer))]_vars
    /\ [][Completes("exchange") => ~isExchanging']_vars
    /\ [](~ExchangePending => ~isExchanging)

\* isExchanging is false while a clearing timer is pending, and
\* exchangeDirection is 'reversed': swapAssets has been called an odd
\* number of times since the start or the last resetSwap, so the flag was
\* set by the latest call, and it was cleared by the timer of an earlier
\* call, the latest call's timer being the one that is pending
C16_Witness ==
    /\ ~isExchanging
    /\ ExchangePending
    /\ exchangeDirection = "reversed"

\* a recomputation for (amount, from, to) starts in this step: for a
\* positive amount a request for exactly these three values is registered
\* and isQuoteLoading is set; for another non-empty amount the guard of
\* calculateQuote clears quote, outputAmount and error and no request is
\* registered
Recomputes(amount, from, to) ==
    IF Positive(amount)
    THEN /\ Registers(QuoteTimer(amount, from, to))
         /\ isQuoteLoading'
    ELSE /\ timers' = timers
         /\ quote' = Null
         /\ outputAmount' = <<>>
         /\ error' = Null

\* C17: setInputAmount(text) with a non-empty text starts a recomputation
\* for (text, fromAsset, toAsset); setFromAsset(asset) and setToAsset(asset)
\* replace the asset and start a recomputation for the new pair and the
\* current inputAmount exactly when inputAmount is non-empty; with
\* inputAmount empty they change the asset field only, and
\* setInputAmount('') changes inputAmount only.
C17_TriggerRule ==
    /\ [][\A amount \in AmountTexts :
             setInputAmount(amount)
               => (/\ inputAmount' = amount
                   /\ IF amount # <<>>
                      THEN Recomputes(amount, fromAsset, toAsset)
                      ELSE UNCHANGED <<fromAsset, toAsset, outputAmount, quote,
                                       isQuoteLoading, isSwapPending,
                                       isExchanging, exchangeDirection, error,
                                       warning, slippageTolerance, deadline,
                                       timers>>)]_vars
    /\ [][\A asset \in assets :
             setFromAsset(asset)
               => (/\ fromAsset' = asset
                   /\ IF inputAmount # <<>>
                      THEN Recomputes(inputAmount, asset, toAsset)
                      ELSE UNCHANGED <<toAsset, inputAmount, outputAmount,
                                       quote, isQuoteLoading, isSwapPending,
                                       isExchanging, exchangeDirection, error,
                                       warning, slippageTolerance, deadline,
                                       timers>>)]_vars
    /\ [][\A asset \in assets :
             setToAsset(asset)
               => (/\ toAsset' = asset
                   /\ IF inputAmount # <<>>
                      THEN Recomputes(inputAmount, fromAsset, asset)
                      ELSE UNCHANGED <<fromAsset, inputAmount, outputAmount,
                                       quote, isQuoteLoading, isSwapPending,
                                       isExchanging, exchangeDirection, error,
                                       warning, slippageTolerance, deadline,
                                       timers>>)]_vars

\* setInputAmount('1') on the default pair and then setFromAsset(ETH) have
\* each started a recomputation, the second one for the new pair
C17_Witness ==
    /\ inputAmount = T1
    /\ fromAsset = "ETH"
    /\ toAsset = "ETH"
    /\ isQuoteLoading
    /\ timers = <<QuoteTimer(T1, "BTC", "ETH"), QuoteTimer(T1, "ETH", "ETH")>>

RateNotFound == Some("Exchange rate not available")

\* a request for a pair that has a rate is outstanding
SupportedPending ==
    \E i \in 1..Len(timers) :
        timers[i].kind = "quote" /\ Supported(timers[i].from, timers[i].to)

C19_LoadingClears ==
    /\ (isQuoteLoading ~> ~isQuoteLoading)
    /\ (QuotePending ~> ~QuotePending)
    /\ [][Completes("quote") => ~isQuoteLoading']_vars
    /\ [](~QuotePending => ~isQuoteLoading)

\* two requests are outstanding, one of them for a pair without a rate,
\* and the flag is set
C19_Witness ==
    /\ isQuoteLoading
    /\ timers = <<QuoteTimer(T1, "BTC", "ETH"), QuoteTimer(T1, "BTC", "BTC")>>

\* C20: in every reachable state isQuoteLoading is true if and only if a
\* quote request is outstanding: neither the completion of an earlier
\* request nor resetSwap clears it while a request is in flight.
C20_LoadingIffOutstanding == isQuoteLoading <=> QuotePending

\* C21: whenever handleSwap passes its precondition and sets isSwapPending,
\* quote.inputAmount is the numeric value of inputAmount, quote.outputAmount
\* rendered to 6 decimals is outputAmount, and quote.exchangeRate is the
\* rate of the current pair, after any sequence of setInputAmount,
\* setOutputAmount, setFromAsset, setToAsset, swapAssets and completions.
C21_SettlementQuoteMatchesForm ==
    [][(~InvalidSwap /\ handleSwap)
         => (/\ quote[1].inputAmount = parseFloat(inputAmount)
             /\ toFixed(quote[1].outputAmount, 6) = outputAmount
             /\ Supported(fromAsset, toAsset)
             /\ quote[1].exchangeRate = RateOf(fromAsset, toAsset))]_vars

\* C22: a reset is not undone by a completion in flight: when a quote
\* request completes after resetForm (also the one of a successful swap) or
\* resetSwap, no setInputAmount, setOutputAmount, setFromAsset, setToAsset
\* or swapAssets having followed the reset, quote is absent, outputAmount
\* is empty and error is absent after the completion.
C22_ResetNotUndone ==
    [][(afterReset /\ Completes("quote"))
         => (/\ quote' = Null
             /\ outputAmount' = <<>>
             /\ error' = Null)]_vars

\* the settlements that are outstanding
Settlements == {i \in 1..Len(timers) : timers[i].kind = "settlement"}

\* C23: at most one settlement is outstanding at any time (handleSwap is
\* not entered again between the start of a settlement and its
\* completion), and isSwapPending is true exactly while a settlement is
\* outstanding.
C23_OneSettlementOutstanding ==
    /\ Cardinality(Settlements) <= 1
    /\ isSwapPending <=> (Settlements # {})

=============================================================================
